---------------------------- MODULE Spec2Model ----------------------------
(***************************************************************************)
(* A model of the AIPoker round engine (game.py, player.py, deck.py), its  *)
(* hand evaluator (hand_evaluator.py) and its stage driver (gui.py).       *)
(*                                                                         *)
(* Players are numbered 1..NumPlayers in table order (self.players).  A    *)
(* card is <<rank, suit>>; a list of the program is a sequence.            *)
(***************************************************************************)
EXTENDS Integers, Sequences, FiniteSets, TLC

\* ------------------------------------------------------------------ bounds
\* Number of players at the table (PokerGame(num_players=...)).
NumPlayers == 2
\* Chips every player starts the game with (PokerGame(starting_chips=...)).
StartingChips == 60
\* Rounds the sequential driver plays before the model stops.
MaxRounds == 2
\* Operations the unconstrained caller of SpecApi invokes before the model stops.
MaxCalls == 3
\* Showdown steps of one round the model counts before it stops counting.
MaxShowdowns == 2

Players == 1..NumPlayers

\* ------------------------------------------------------- program constants
max_retries == 2
MinBet == 50
BetSpread == 200
RaiseFactor == 2
RaiseMaxFactor == 3
RaiseSpread == 100
HandSize == 2
FlopSize == 3
StraightLen == 5
Ace == 14

\* Pieces of text a response of the model is made of, at most.
MaxPieces == 3

\* ---------------------------------------------------------- list helpers
Max(a, b) == IF a >= b THEN a ELSE b

Min(a, b) == IF a <= b THEN a ELSE b

SetMax(S) == CHOOSE x \in S : \A y \in S : y <= x

SetMin(S) == CHOOSE x \in S : \A y \in S : x <= y

Range(s) == {s[i] : i \in DOMAIN s}

\* Python's s[:n]
Take(s, n) == SubSeq(s, 1, Min(n, Len(s)))

\* Python's sorted(s, reverse=True), duplicates kept
RECURSIVE SortedDesc(_)
SortedDesc(s) ==
    IF s = << >> THEN << >>
    ELSE LET m == SetMax(Range(s))
             i == SetMin({k \in DOMAIN s : s[k] = m})
             rest == [k \in 1..(Len(s) - 1) |-> IF k < i THEN s[k] ELSE s[k + 1]]
         IN  <<m>> \o SortedDesc(rest)

\* Python's sorted(set(s))
RECURSIVE SortedSet(_)
SortedSet(S) ==
    IF S = {} THEN << >>
    ELSE LET m == SetMin(S) IN <<m>> \o SortedSet(S \ {m})

\* collections.Counter(s)[x]
Count(s, x) == Cardinality({i \in DOMAIN s : s[i] = x})

\* [k for k, c in Counter(s).items() if P(c)]: the keys in order of first
\* occurrence in s, filtered by their count.
KeysWithCount(s, c) ==
    LET firsts == {i \in DOMAIN s : (\A j \in 1..(i - 1) : s[j] # s[i]) /\ Count(s, s[i]) = c}
        idx == SortedSet(firsts)
    IN  [k \in DOMAIN idx |-> s[idx[k]]]

KeysWithCountAtLeast(s, c) ==
    LET firsts == {i \in DOMAIN s : (\A j \in 1..(i - 1) : s[j] # s[i]) /\ Count(s, s[i]) >= c}
        idx == SortedSet(firsts)
    IN  [k \in DOMAIN idx |-> s[idx[k]]]

\* Python's list comparison a > b: the first difference decides, and a proper
\* extension is greater than its prefix.
ListGreater(a, b) ==
    \/ \E i \in 1..Min(Len(a), Len(b)) :
          /\ a[i] > b[i]
          /\ \A j \in 1..(i - 1) : a[j] = b[j]
    \/ /\ Len(a) > Len(b)
       /\ \A j \in 1..Len(b) : a[j] = b[j]

\* ------------------------------------------------------------------ cards
Suits == <<"hearts", "diamonds", "clubs", "spades">>

\* [(rank, suit) for rank in range(2, 15) for suit in [...]]
FullDeck == [k \in 1..52 |-> <<2 + ((k - 1) \div 4), Suits[((k - 1) % 4) + 1]>>]

RanksOf(cards) == [i \in DOMAIN cards |-> cards[i][1]]

SuitsOf(cards) == [i \in DOMAIN cards |-> cards[i][2]]

\* [card[0] for card in all_cards if card[1] == suit]
RECURSIVE SuitedRanks(_, _)
SuitedRanks(cards, suit) ==
    IF cards = << >> THEN << >>
    ELSE (IF Head(cards)[2] = suit THEN <<Head(cards)[1]>> ELSE << >>)
         \o SuitedRanks(Tail(cards), suit)

\* ---------------------------------------------------------- hand evaluator
\* The window of unique_ranks starting at (0-based) index i is a run of 5.
IsRunAt(u, i) ==
    /\ i + StraightLen <= Len(u)
    /\ \A k \in 0..(StraightLen - 1) : u[i + 1 + k] = u[i + 1] + k

Wheel == {Ace, 2, 3, 4, 5}

is_straight(ranks) ==
    LET u == SortedSet(Range(ranks))
    IN  IF Len(u) < StraightLen THEN FALSE
        ELSE \/ \E i \in 0..(Len(u) - StraightLen) : IsRunAt(u, i)
             \/ Wheel \subseteq Range(u)

\* unique_ranks[i+4:i-1:-1]: for i >= 1 the five ranks from index i+4 down to
\* index i; for i = 0 the stop index -1 names the last element, which is at or
\* above index 4, so the slice is empty.
RunSlice(u, i) ==
    IF i = 0 THEN << >>
    ELSE [k \in 1..StraightLen |-> u[i + 1 + StraightLen - k]]

get_best_straight(ranks) ==
    LET u == SortedSet(Range(ranks))
        runs == {i \in 0..(Len(u) - StraightLen) : IsRunAt(u, i)}
    IN  IF runs # {} THEN RunSlice(u, SetMin(runs))
        ELSE IF Wheel \subseteq Range(u) THEN <<5, 4, 3, 2, Ace>>
        ELSE << >>

is_straight_flush(all_cards) ==
    \E suit \in Range(SuitsOf(all_cards)) :
        /\ Count(SuitsOf(all_cards), suit) >= 5
        /\ is_straight(SuitedRanks(all_cards, suit))

is_four_of_a_kind(ranks) == \E r \in Range(ranks) : Count(ranks, r) = 4

is_full_house(ranks) ==
    /\ \E r \in Range(ranks) : Count(ranks, r) = 3
    /\ \E r \in Range(ranks) : Count(ranks, r) = 2

is_flush(suits) == \E s \in Range(suits) : Count(suits, s) >= 5

is_three_of_a_kind(ranks) == \E r \in Range(ranks) : Count(ranks, r) = 3

is_two_pair(ranks) == Cardinality({r \in Range(ranks) : Count(ranks, r) = 2}) >= 2

is_one_pair(ranks) == \E r \in Range(ranks) : Count(ranks, r) = 2

get_high_card(ranks) == SortedDesc(ranks)

\* The best_ranks that stand for a ValueError raised by max() of an empty list.
ValueError == <<0 - 1>>

get_best_four_of_a_kind(ranks) ==
    LET four_rank == KeysWithCount(ranks, 4)[1]
        others == Range(ranks) \ {four_rank}
    IN  IF others = {} THEN ValueError ELSE <<four_rank, SetMax(others)>>

get_best_full_house(ranks) ==
    <<KeysWithCount(ranks, 3)[1], KeysWithCount(ranks, 2)[1]>>

get_best_flush(all_cards) ==
    LET flush_suit == KeysWithCountAtLeast(SuitsOf(all_cards), 5)[1]
    IN  Take(SortedDesc(SuitedRanks(all_cards, flush_suit)), 5)

RECURSIVE Without(_, _)
Without(s, S) ==
    IF s = << >> THEN << >>
    ELSE (IF Head(s) \in S THEN << >> ELSE <<Head(s)>>) \o Without(Tail(s), S)

get_best_three_of_a_kind(ranks) ==
    LET three_rank == KeysWithCount(ranks, 3)[1]
    IN  <<three_rank>> \o Take(SortedDesc(Without(ranks, {three_rank})), 2)

get_best_two_pair(ranks) ==
    LET pairs == Take(SortedDesc(KeysWithCount(ranks, 2)), 2)
        others == Range(ranks) \ Range(pairs)
    IN  IF others = {} THEN ValueError ELSE pairs \o <<SetMax(others)>>

get_best_one_pair(ranks) ==
    LET pair == KeysWithCount(ranks, 2)[1]
    IN  <<pair>> \o Take(SortedDesc(Without(ranks, {pair})), 3)

\* evaluate_hand(hand, community_cards) = <<hand_rank, best_ranks>>
evaluate_hand(hand, community) ==
    LET all_cards == hand \o community
        all_ranks == RanksOf(all_cards)
        all_suits == SuitsOf(all_cards)
    IN  IF is_straight_flush(all_cards) THEN <<9, get_best_straight(all_ranks)>>
        ELSE IF is_four_of_a_kind(all_ranks) THEN <<8, get_best_four_of_a_kind(all_ranks)>>
        ELSE IF is_full_house(all_ranks) THEN <<7, get_best_full_house(all_ranks)>>
        ELSE IF is_flush(all_suits) THEN <<6, get_best_flush(all_cards)>>
        ELSE IF is_straight(all_ranks) THEN <<5, get_best_straight(all_ranks)>>
        ELSE IF is_three_of_a_kind(all_ranks) THEN <<4, get_best_three_of_a_kind(all_ranks)>>
        ELSE IF is_two_pair(all_ranks) THEN <<3, get_best_two_pair(all_ranks)>>
        ELSE IF is_one_pair(all_ranks) THEN <<2, get_best_one_pair(all_ranks)>>
        ELSE <<1, get_high_card(all_ranks)>>

\* ------------------------------------------------------------------ state
VARIABLES
    chips,            \* AIPlayer.chips, per player
    current_bet,      \* AIPlayer.current_bet, per player
    is_active,        \* AIPlayer.is_active, per player
    hand,             \* AIPlayer.hand, per player
    deck,             \* Deck.cards; pop() takes the last element
    community_cards,  \* PokerGame.community_cards
    pot,              \* PokerGame.pot
    dealer_position,  \* PokerGame.dealer_position
    pc,               \* "idle", or "betting" while betting_round scans the players
    turn,             \* the player the scan of betting_round is at (0 when idle)
    streetBet,        \* betting_round's local current_bet
    street,           \* the street operation that ran last or is running
    current_stage,    \* PokerGUI.current_stage
    timer,            \* PokerGUI.timer is running
    aborted,          \* the process has ended on an unhandled exception
    rounds,           \* play_pre_flop calls so far
    calls,            \* operations invoked so far by the caller of SpecApi
    chips_at_start,   \* history: chips when the round's play_pre_flop began
    last,             \* history: the last step taken (a decision, "skip", "start", ...)
    winner,           \* history: best_player of this round's determine_winner (0: None)
    evals,            \* history: evaluate_hand calls of this round's last determine_winner
    showdowns,        \* history: determine_winner calls of this round
    results,          \* the <<hand_value, best_ranks>> the last determine_winner logged, per player
    request           \* the get_ai_decision call in progress: [pc, attempts, text, result]

playerVars == <<chips, current_bet, is_active, hand>>

tableVars == <<deck, community_cards, pot, dealer_position>>

passVars == <<pc, turn, streetBet>>

guiVars == <<current_stage, timer, aborted>>

histVars == <<chips_at_start, winner, evals, showdowns, results, request>>

vars == <<chips, current_bet, is_active, hand, deck, community_cards, pot,
          dealer_position, pc, turn, streetBet, street, current_stage, timer,
          aborted, rounds, calls, chips_at_start, last, winner, evals, showdowns,
          results, request>>

\* No get_ai_decision call is in progress.
NoRequest ==
    [pc |-> "idle", attempts |-> 0, received |-> FALSE, text |-> << >>, result |-> "none"]

\* The entry of a player determine_winner has logged no hand value for.
NoResult == <<0, << >>>>

\* ------------------------------------------------------------------- deck
Reverse(s) == [i \in DOMAIN s |-> s[Len(s) + 1 - i]]

\* A deck whose pop() sequence starts with `top`: the remaining cards of the
\* unshuffled list, then `top` reversed.
DeckWithTop(top) == Without(FullDeck, Range(top)) \o Reverse(top)

\* Two deals: with two players TieDeal puts a straight on the board that both
\* play, and PairDeal gives the second player the higher pair.
TieDeal ==
    <<<<2, "hearts">>, <<3, "clubs">>, <<2, "spades">>, <<3, "diamonds">>,
      <<10, "hearts">>, <<11, "clubs">>, <<12, "spades">>, <<13, "diamonds">>,
      <<14, "hearts">>, <<7, "clubs">>, <<7, "spades">>, <<8, "clubs">>, <<8, "spades">>>>

PairDeal ==
    <<<<9, "hearts">>, <<4, "clubs">>, <<13, "spades">>, <<13, "hearts">>,
      <<9, "clubs">>, <<5, "diamonds">>, <<6, "spades">>, <<14, "diamonds">>,
      <<2, "clubs">>, <<11, "hearts">>, <<12, "hearts">>, <<3, "hearts">>, <<4, "hearts">>>>

\* The orders random.shuffle is taken to produce.  Every order of the 52 cards
\* is a possible shuffle; these two bound the choice.
Shuffles == {DeckWithTop(TieDeal), DeckWithTop(PairDeal)}

\* [self.cards.pop() for _ in range(n)]
Popped(d, n) == [i \in 1..n |-> d[Len(d) + 1 - i]]

\* a deal that reads the top cards and leaves them on the deck
AfterPeek(d, n) == d

AfterPop(d, n) == SubSeq(d, 1, Len(d) - n)

\* deal_hand() for player p, the players served in table order
deal_hand(d, p) == Popped(AfterPop(d, HandSize * (p - 1)), HandSize)

\* Mutant of deal_flop: range(2) instead of range(3).
deal_flop_short(d) == Popped(d, FlopSize - 1)

deal_flop(d) == Popped(d, FlopSize)

deal_turn(d) == d[Len(d)]

deal_river(d) == d[Len(d)]

\* ---------------------------------------------------------------- player
\* Mutant of calculate_bet_amount: the all-in branch is missing and a player
\* short of bet_min bets bet_min.
calculate_bet_amount_unchecked(c, bet) ==
    LET bet_min == Max(bet, MinBet)
        bet_max == Min(c, bet + BetSpread)
    IN  IF bet_max < bet_min THEN {bet_min} ELSE bet_min..bet_max

\* Mutant of calculate_bet_amount: bet_max is not capped by the chips.
calculate_bet_amount_uncapped(c, bet) ==
    LET bet_min == Max(bet, MinBet)
        bet_max == bet + BetSpread
    IN  IF bet_max < bet_min THEN {c} ELSE bet_min..bet_max

\* calculate_bet_amount: the amounts random.randint(bet_min, bet_max) can return,
\* or the all-in amount.
calculate_bet_amount(c, bet) ==
    LET bet_min == Max(bet, MinBet)
        bet_max == Min(c, bet + BetSpread)
    IN  IF bet_max < bet_min THEN {c} ELSE bet_min..bet_max

\* Mutant of calculate_raise_amount: raise_min is the current bet, not twice it.
calculate_raise_amount_single(c, bet) ==
    IF c <= bet * RaiseFactor THEN {c}
    ELSE LET raise_min == bet
             raise_max == Min(c, bet * RaiseMaxFactor + RaiseSpread)
         IN  IF raise_max < raise_min THEN {c} ELSE raise_min..raise_max

calculate_raise_amount(c, bet) ==
    IF c <= bet * RaiseFactor THEN {c}
    ELSE LET raise_min == bet * RaiseFactor
             raise_max == Min(c, bet * RaiseMaxFactor + RaiseSpread)
         IN  IF raise_max < raise_min THEN {c} ELSE raise_min..raise_max

\* The draws of random.randint the model takes: both ends of the range.
Sampled(S) == {SetMin(S), SetMax(S)}

\* What get_ai_decision returns.
Decisions == {"fold", "check", "bet", "raise"}

\* make_decision(community_cards, current_bet) of player p with decision d and
\* the amount amt drawn for a bet or a raise.
make_decision(p, d, amt) ==
    /\ is_active' = IF d = "fold" THEN [is_active EXCEPT ![p] = FALSE] ELSE is_active
    /\ chips' = IF d \in {"bet", "raise"} THEN [chips EXCEPT ![p] = @ - amt] ELSE chips
    /\ current_bet' = IF d \in {"bet", "raise"} THEN [current_bet EXCEPT ![p] = amt]
                      ELSE current_bet
    /\ UNCHANGED hand

AmountsFor(p, d) ==
    IF d = "bet" THEN Sampled(calculate_bet_amount(chips[p], streetBet))
    ELSE IF d = "raise" THEN Sampled(calculate_raise_amount(chips[p], streetBet))
    ELSE {0}

\* ----------------------------------------------------------- betting_round
\* Entering betting_round: current_bet = 0 and the scan starts at the first player.
StartPass(name) ==
    /\ pc' = "betting"
    /\ turn' = 1
    /\ streetBet' = 0
    /\ street' = name
    /\ last' = "start"

\* Mutant of PassAdvance: after the last player the scan starts again when the
\* first player is active and below the running bet.
PassAdvanceReopening ==
    IF turn = NumPlayers
    THEN IF is_active'[1] /\ current_bet'[1] < streetBet'
         THEN pc' = "betting" /\ turn' = 1
         ELSE pc' = "idle" /\ turn' = 0
    ELSE pc' = "betting" /\ turn' = turn + 1

\* After the last player the scan ends and the street operation returns.
PassAdvance ==
    IF turn = NumPlayers
    THEN pc' = "idle" /\ turn' = 0
    ELSE pc' = "betting" /\ turn' = turn + 1

\* What betting_round adds to the pot after player p's make_decision.
PotAfter(p) == pot + current_bet'[p]

\* One iteration of `for player in self.players` for a player with is_active.
PlayerActs ==
    /\ pc = "betting"
    /\ is_active[turn]
    /\ \E d \in Decisions : \E amt \in AmountsFor(turn, d) :
          /\ make_decision(turn, d, amt)
          /\ last' = d
    /\ streetBet' = IF current_bet'[turn] > streetBet THEN current_bet'[turn] ELSE streetBet
    /\ pot' = PotAfter(turn)
    /\ PassAdvance
    /\ UNCHANGED <<deck, community_cards, dealer_position, street,
                   timer, aborted, rounds, calls, histVars>>

\* Mutant of PlayerSkipped: the pot is increased outside the is_active test.
PlayerSkippedPays ==
    /\ pc = "betting"
    /\ ~is_active[turn]
    /\ last' = "skip"
    /\ pot' = pot + current_bet[turn]
    /\ PassAdvance
    /\ UNCHANGED <<playerVars, deck, community_cards, dealer_position, streetBet, street,
                   timer, aborted, rounds, calls, histVars>>

\* One iteration for a player whose is_active is false: nothing happens.
PlayerSkipped ==
    /\ pc = "betting"
    /\ ~is_active[turn]
    /\ last' = "skip"
    /\ PassAdvance
    /\ UNCHANGED <<playerVars, tableVars, streetBet, street,
                   timer, aborted, rounds, calls, histVars>>

\* ------------------------------------------------------- street operations
\* a rotation that forgets the modulus
next_dealer_unwrapped(d) == d + 1

\* self.dealer_position = (self.dealer_position + 1) % self.num_players
next_dealer(d) == (d + 1) % NumPlayers

play_pre_flop ==
    /\ pc = "idle"
    /\ \E d \in Shuffles :
          /\ hand' = [p \in Players |-> deal_hand(d, p)]
          /\ deck' = AfterPop(d, HandSize * NumPlayers)
    /\ community_cards' = << >>
    /\ pot' = 0
    /\ dealer_position' = next_dealer(dealer_position)
    /\ chips_at_start' = chips
    /\ rounds' = rounds + 1
    /\ winner' = 0
    /\ evals' = 0
    /\ showdowns' = 0
    /\ results' = [p \in Players |-> NoResult]
    /\ StartPass("PreFlop")
    /\ UNCHANGED request
    /\ UNCHANGED <<chips, current_bet, is_active>>

\* Mutant of play_flop: the operation can start while a betting pass is running.
play_flop_reentrant ==
    /\ community_cards' = deal_flop(deck)
    /\ deck' = AfterPop(deck, FlopSize)
    /\ StartPass("Flop")
    /\ UNCHANGED <<playerVars, pot, dealer_position, rounds, histVars>>

\* The deals below pop from a deck that holds the cards: a round deals
\* HandSize * NumPlayers + 5 of the 52, and SpecApi stops after MaxCalls calls.
play_flop ==
    /\ pc = "idle"
    /\ community_cards' = deal_flop(deck)
    /\ deck' = AfterPop(deck, FlopSize)
    /\ StartPass("Flop")
    /\ UNCHANGED <<playerVars, pot, dealer_position, rounds, histVars>>

play_turn ==
    /\ pc = "idle"
    /\ community_cards' = Append(community_cards, deal_turn(deck))
    /\ deck' = AfterPop(deck, 1)
    /\ StartPass("Turn")
    /\ UNCHANGED <<playerVars, pot, dealer_position, rounds, histVars>>

play_river ==
    /\ pc = "idle"
    /\ community_cards' = Append(community_cards, deal_river(deck))
    /\ deck' = AfterPop(deck, 1)
    /\ StartPass("River")
    /\ UNCHANGED <<playerVars, pot, dealer_position, rounds, histVars>>

\* ------------------------------------------------------------- showdown
\* Mutant of Better: the tie-break lists are compared before the categories.
BetterRanksFirst(v, best_value, best_player) ==
    \/ best_player = 0
    \/ ListGreater(v[2], best_value[2])
    \/ v[2] = best_value[2] /\ v[1] > best_value[1]

\* Mutant of Better: >= instead of > on the tie-break lists.
BetterOrEqual(v, best_value, best_player) ==
    \/ best_player = 0
    \/ v[1] > best_value[1]
    \/ v[1] = best_value[1] /\ ~ListGreater(best_value[2], v[2])

\* The conditions under which the loop of determine_winner replaces the best
\* hand so far by v (best_player 0: best_hand_value is None).
Better(v, best_value, best_player) ==
    \/ best_player = 0
    \/ v[1] > best_value[1]
    \/ v[1] = best_value[1] /\ ListGreater(v[2], best_value[2])

\* The best_player that stands for determine_winner left by an exception.
Raised == 0 - 1

\* The loop of determine_winner over active_players, in table order: the state
\* is <<best_hand_value, best_player>>, with best_player 0 for None.  An
\* exception of evaluate_hand leaves the loop and determine_winner.
RECURSIVE WinnerLoop(_, _, _)
WinnerLoop(ps, best_value, best_player) ==
    IF ps = << >> THEN best_player
    ELSE LET p == Head(ps)
             v == evaluate_hand(hand[p], community_cards)
         IN  IF v[2] = ValueError THEN Raised
             ELSE IF Better(v, best_value, best_player) THEN WinnerLoop(Tail(ps), v, p)
             ELSE WinnerLoop(Tail(ps), best_value, best_player)

\* Mutant of active_players: the is_active filter is missing.
all_players == SortedSet(Players)

\* [player for player in self.players if player.is_active]
active_players == SortedSet({p \in Players : is_active[p]})

\* Mutant of BestPlayer: with no active player the first player of the table
\* is returned.
BestPlayerOrFirst ==
    IF active_players = << >> THEN 1 ELSE WinnerLoop(active_players, <<0, << >>>>, 0)

BestPlayer == WinnerLoop(active_players, <<0, << >>>>, 0)

\* evaluate_hand runs once per iteration of the loop, up to the first that raises.
EvaluateCalls ==
    LET raising == {i \in DOMAIN active_players :
                      evaluate_hand(hand[active_players[i]], community_cards)[2] = ValueError}
    IN  IF raising = {} THEN Len(active_players) ELSE SetMin(raising)

\* self.log.append(f"{player.name}'s hand value: {hand_value} with best ranks:
\* {best_ranks} ..."), for the players the loop reached without an exception
LoggedResults ==
    [p \in Players |->
        IF \E i \in 1..EvaluateCalls : active_players[i] = p
          THEN LET v == evaluate_hand(hand[p], community_cards)
               IN  IF v[2] = ValueError THEN NoResult ELSE v
          ELSE NoResult]

\* describe_hand_value(hand_value)
describe_hand_value(hand_value) ==
    IF hand_value >= 8 THEN "Straight Flush"
    ELSE IF hand_value = 7 THEN "Four of a Kind"
    ELSE IF hand_value = 6 THEN "Full House"
    ELSE IF hand_value = 5 THEN "Flush"
    ELSE IF hand_value = 4 THEN "Straight"
    ELSE IF hand_value = 3 THEN "Three of a Kind"
    ELSE IF hand_value = 2 THEN "Two Pair"
    ELSE IF hand_value = 1 THEN "One Pair"
    ELSE "High Card"

\* The hand_description determine_winner logged for player p.
hand_description(p) == describe_hand_value(results[p][1])

\* The winning_hand determine_winner returned with best_player `winner`.
winning_hand == IF winner \in Players THEN hand_description(winner) ELSE "No winner"

\* Mutant of determine_winner: the pot is paid to the winner.
determine_winner_pays ==
    /\ pc = "idle"
    /\ winner' = BestPlayer
    /\ evals' = EvaluateCalls
    /\ results' = LoggedResults
    /\ showdowns' = showdowns + 1
    /\ street' = "Showdown"
    /\ last' = "showdown"
    /\ chips' = [p \in Players |-> IF p = BestPlayer THEN chips[p] + pot ELSE chips[p]]
    /\ UNCHANGED <<current_bet, is_active, hand, tableVars, passVars, rounds,
                   chips_at_start, request>>

determine_winner ==
    /\ pc = "idle"
    /\ winner' = BestPlayer
    /\ evals' = EvaluateCalls
    /\ results' = LoggedResults
    /\ showdowns' = showdowns + 1
    /\ street' = "Showdown"
    /\ last' = "showdown"
    /\ UNCHANGED <<playerVars, tableVars, passVars, rounds, chips_at_start, request>>

\* AIPlayer.reset_for_next_round, for every player
reset_for_next_round ==
    /\ hand' = [p \in Players |-> << >>]
    /\ current_bet' = [p \in Players |-> 0]
    /\ is_active' = [p \in Players |-> TRUE]
    /\ UNCHANGED chips

\* PokerGUI.reset_game_for_next_round, without its timer restart
reset_game_for_next_round ==
    /\ pc = "idle"
    /\ \E d \in Shuffles : deck' = d
    /\ reset_for_next_round
    /\ community_cards' = << >>
    /\ pot' = 0
    /\ last' = "reset"
    /\ UNCHANGED <<dealer_position, passVars, street, rounds, histVars>>

\* ------------------------------------------------------------------- init
\* PokerGame.__init__ and PokerGUI.__init__
Init ==
    /\ chips = [p \in Players |-> StartingChips]
    /\ current_bet = [p \in Players |-> 0]
    /\ is_active = [p \in Players |-> TRUE]
    /\ hand = [p \in Players |-> << >>]
    /\ deck \in Shuffles
    /\ community_cards = << >>
    /\ pot = 0
    /\ dealer_position = 0
    /\ pc = "idle"
    /\ turn = 0
    /\ streetBet = 0
    /\ street = "None"
    /\ current_stage = 0
    /\ timer = FALSE
    /\ aborted = FALSE
    /\ rounds = 0
    /\ calls = 0
    /\ chips_at_start = [p \in Players |-> StartingChips]
    /\ last = "none"
    /\ winner = 0
    /\ evals = 0
    /\ showdowns = 0
    /\ results = [p \in Players |-> NoResult]
    /\ request = NoRequest

\* ------------------------------------------------- the sequential driver
\* Spec: a driver that calls the street operations in the order of
\* advance_game_stage, one per trigger, and starts the next round either
\* through reset_game_for_next_round or by calling play_pre_flop again.

\* self.current_stage += 1, once the street operation has returned
StageDone ==
    current_stage' = IF pc' = "idle" THEN current_stage + 1 ELSE current_stage

Stage0 ==
    /\ current_stage = 0
    /\ rounds < MaxRounds
    /\ play_pre_flop
    /\ UNCHANGED <<guiVars, calls>>

Stage1 == current_stage = 1 /\ play_flop /\ UNCHANGED <<guiVars, calls>>

Stage2 == current_stage = 2 /\ play_turn /\ UNCHANGED <<guiVars, calls>>

Stage3 == current_stage = 3 /\ play_river /\ UNCHANGED <<guiVars, calls>>

Stage4 ==
    /\ current_stage = 4
    /\ determine_winner
    /\ current_stage' = current_stage + 1
    /\ UNCHANGED <<timer, aborted, calls>>

ActStep == PlayerActs /\ StageDone

SkipStep == PlayerSkipped /\ StageDone

NextRoundWithReset ==
    /\ current_stage = 5
    /\ rounds < MaxRounds
    /\ reset_game_for_next_round
    /\ current_stage' = 0
    /\ UNCHANGED <<timer, aborted, calls>>

NextRoundWithoutReset ==
    /\ current_stage = 5
    /\ rounds < MaxRounds
    /\ play_pre_flop
    /\ current_stage' = 0
    /\ UNCHANGED <<timer, aborted, calls>>

Next ==
    \/ Stage0
    \/ Stage1
    \/ Stage2
    \/ Stage3
    \/ Stage4
    \/ ActStep
    \/ SkipStep
    \/ NextRoundWithReset
    \/ NextRoundWithoutReset

Spec == Init /\ [][Next]_vars

\* SpecFold: the sequential driver with a collaborator that answers only
\* "fold" or "check", so that no chips move and players drop out.
FoldOrCheckStep == ActStep /\ last' \in {"fold", "check"}

FoldNext ==
    \/ Stage0
    \/ Stage1
    \/ Stage2
    \/ Stage3
    \/ Stage4
    \/ FoldOrCheckStep
    \/ SkipStep
    \/ NextRoundWithReset
    \/ NextRoundWithoutReset

SpecFold == Init /\ [][FoldNext]_vars

\* SpecStreets: the sequential driver over the four streets of the first
\* round, with every decision and both ends of every amount range.
FirstRound == rounds = 0 /\ Stage0

StreetsNext ==
    \/ FirstRound
    \/ Stage1
    \/ Stage2
    \/ Stage3
    \/ ActStep
    \/ SkipStep

SpecStreets == Init /\ [][StreetsNext]_vars

\* SpecBet: the sequential driver with a collaborator that answers only
\* "fold" or "bet", so that chips move into the pot and players drop out.
FoldOrBetStep == ActStep /\ last' \in {"fold", "bet"}

BetNext ==
    \/ Stage0
    \/ Stage1
    \/ Stage2
    \/ Stage3
    \/ Stage4
    \/ FoldOrBetStep
    \/ SkipStep
    \/ NextRoundWithReset
    \/ NextRoundWithoutReset

SpecBet == Init /\ [][BetNext]_vars

\* ------------------------------------------------------- the GUI driver
\* SpecGui: the stage timer of PokerGUI.  A timeout is handled only between
\* handlers: advance_game_stage runs to its end on the event loop's thread.
start_game ==
    /\ ~timer
    /\ ~aborted
    /\ pc = "idle"
    /\ current_stage = 0
    /\ rounds = 0
    /\ timer' = TRUE
    /\ UNCHANGED <<playerVars, tableVars, passVars, street, current_stage, aborted,
                   rounds, calls, last, histVars>>

\* show_winner: determine_winner returns, then update_win_percentages calls
\* player.get_win_percentage(), which AIPlayer does not define.  The
\* AttributeError leaves advance_game_stage before QTimer.singleShot and
\* before current_stage += 1.  What becomes of an exception that leaves a
\* slot is the binding's: the process is aborted, or the exception is
\* reported and the event loop goes on.
show_winner_aborts ==
    /\ current_stage = 4
    /\ showdowns < MaxShowdowns
    /\ determine_winner
    /\ aborted' = TRUE
    /\ UNCHANGED <<current_stage, timer, calls>>

show_winner_returns ==
    /\ current_stage = 4
    /\ showdowns < MaxShowdowns
    /\ determine_winner
    /\ UNCHANGED <<current_stage, timer, aborted, calls>>

advance_game_stage ==
    /\ timer
    /\ ~aborted
    /\ \/ Stage0
       \/ Stage1
       \/ Stage2
       \/ Stage3
       \/ show_winner_aborts
       \/ show_winner_returns

GuiNext ==
    \/ start_game
    \/ advance_game_stage
    \/ ActStep
    \/ SkipStep

SpecGui == Init /\ [][GuiNext]_vars

\* SpecGuiBet: the stage timer with the collaborator of SpecBet.
GuiBetNext ==
    \/ start_game
    \/ advance_game_stage
    \/ FoldOrBetStep
    \/ SkipStep

SpecGuiBet == Init /\ [][GuiBetNext]_vars

\* ------------------------------------------------- the unconstrained caller
\* SpecApi: a caller that invokes the operations of PokerGame in any order.
Call(op) ==
    /\ calls < MaxCalls
    /\ op
    /\ calls' = calls + 1
    /\ UNCHANGED guiVars

CallPreFlop == Call(play_pre_flop)

CallFlop == Call(play_flop)

CallTurn == Call(play_turn)

CallRiver == Call(play_river)

CallShowdown == Call(determine_winner)

ApiAct == PlayerActs /\ UNCHANGED current_stage

ApiSkip == PlayerSkipped /\ UNCHANGED current_stage

ApiNext ==
    \/ CallPreFlop
    \/ CallFlop
    \/ CallTurn
    \/ CallRiver
    \/ CallShowdown
    \/ ApiAct
    \/ ApiSkip

SpecApi == Init /\ [][ApiNext]_vars

\* ------------------------------------------------------ showdown inputs
\* SpecShowdown: determine_winner applied after the river, the hole cards, the
\* board and the players still active drawn from bounded sets.
BoardStraight ==
    <<<<10, "hearts">>, <<11, "clubs">>, <<12, "spades">>, <<13, "diamonds">>, <<2, "clubs">>>>

BoardPairs ==
    <<<<5, "hearts">>, <<5, "diamonds">>, <<9, "clubs">>, <<9, "spades">>, <<13, "hearts">>>>

Boards == {BoardStraight, BoardPairs}

HoleCards ==
    {<<14, "hearts">>, <<14, "diamonds">>, <<9, "hearts">>, <<13, "clubs">>,
     <<3, "clubs">>, <<3, "diamonds">>}

Hands == {h \in [1..HandSize -> HoleCards] : h[1] # h[2]}

Deals == {hs \in [Players -> Hands] :
            \A p, q \in Players : p # q => Range(hs[p]) \cap Range(hs[q]) = {}}

InitShowdown ==
    /\ chips = [p \in Players |-> StartingChips]
    /\ current_bet = [p \in Players |-> 0]
    /\ is_active \in [Players -> BOOLEAN]
    /\ hand \in Deals
    /\ community_cards \in Boards
    /\ deck = Without(FullDeck, Range(community_cards)
                                 \cup UNION {Range(hand[p]) : p \in Players})
    /\ pot = 0
    /\ dealer_position = 1 % NumPlayers
    /\ pc = "idle"
    /\ turn = 0
    /\ streetBet = 0
    /\ street = "River"
    /\ current_stage = 4
    /\ timer = FALSE
    /\ aborted = FALSE
    /\ rounds = 1
    /\ calls = 0
    /\ chips_at_start = [p \in Players |-> StartingChips]
    /\ last = IF is_active[NumPlayers] THEN "check" ELSE "skip"
    /\ winner = 0
    /\ evals = 0
    /\ showdowns = 0
    /\ results = [p \in Players |-> NoResult]
    /\ request = NoRequest

ShowdownNext == Stage4

SpecShowdown == InitShowdown /\ [][ShowdownNext]_vars

\* ------------------------------------------------------- sizing inputs
\* SpecSizing: the PreFlop betting pass of the first round, the players
\* constructed with chips drawn from a bounded set.
ChipStacks == {0, 40, 60, 260, 700}

InitSizing ==
    /\ chips \in [Players -> ChipStacks]
    /\ current_bet = [p \in Players |-> 0]
    /\ is_active = [p \in Players |-> TRUE]
    /\ hand = [p \in Players |-> deal_hand(DeckWithTop(TieDeal), p)]
    /\ deck = AfterPop(DeckWithTop(TieDeal), HandSize * NumPlayers)
    /\ community_cards = << >>
    /\ pot = 0
    /\ dealer_position = 1 % NumPlayers
    /\ pc = "betting"
    /\ turn = 1
    /\ streetBet = 0
    /\ street = "PreFlop"
    /\ current_stage = 0
    /\ timer = FALSE
    /\ aborted = FALSE
    /\ rounds = 1
    /\ calls = 0
    /\ chips_at_start = chips
    /\ last = "start"
    /\ winner = 0
    /\ evals = 0
    /\ showdowns = 0
    /\ results = [p \in Players |-> NoResult]
    /\ request = NoRequest

SizingNext == ActStep

SpecSizing == InitSizing /\ [][SizingNext]_vars

\* ------------------------------------------------- inputs of the evaluator
\* SpecEval: determine_winner, and through it evaluate_hand, over boards and
\* hole cards drawn to hold straights, wheels, straight flushes, two triples
\* and full houses with a second pair, in more than one order of the cards.
BoardLow ==
    <<<<2, "hearts">>, <<3, "clubs">>, <<4, "diamonds">>, <<5, "spades">>, <<13, "diamonds">>>>

BoardLowFlop == <<<<3, "clubs">>, <<4, "diamonds">>, <<5, "spades">>>>

BoardRoyal ==
    <<<<12, "hearts">>, <<11, "hearts">>, <<10, "hearts">>, <<2, "clubs">>, <<3, "spades">>>>

BoardSuitedRun ==
    <<<<6, "hearts">>, <<7, "hearts">>, <<8, "hearts">>, <<9, "hearts">>, <<5, "clubs">>>>

BoardTwoPairs ==
    <<<<5, "spades">>, <<9, "clubs">>, <<9, "hearts">>, <<5, "diamonds">>, <<2, "spades">>>>

BoardNinesFirst ==
    <<<<9, "clubs">>, <<9, "hearts">>, <<2, "diamonds">>, <<2, "clubs">>, <<5, "spades">>>>

BoardTwosFirst ==
    <<<<2, "diamonds">>, <<2, "clubs">>, <<9, "clubs">>, <<9, "hearts">>, <<5, "spades">>>>

EvalBoards ==
    {BoardLow, BoardLowFlop, BoardRoyal, BoardSuitedRun, BoardTwoPairs,
     BoardNinesFirst, BoardTwosFirst}

EvalHands ==
    {<<<<14, "hearts">>, <<13, "hearts">>>>,
     <<<<14, "clubs">>, <<9, "spades">>>>,
     <<<<14, "diamonds">>, <<2, "spades">>>>,
     <<<<6, "diamonds">>, <<9, "diamonds">>>>,
     <<<<6, "spades">>, <<14, "spades">>>>,
     <<<<10, "hearts">>, <<2, "diamonds">>>>,
     <<<<10, "spades">>, <<2, "clubs">>>>,
     <<<<13, "spades">>, <<3, "diamonds">>>>,
     <<<<5, "hearts">>, <<9, "diamonds">>>>,
     <<<<9, "diamonds">>, <<5, "hearts">>>>,
     <<<<5, "hearts">>, <<5, "clubs">>>>,
     <<<<5, "clubs">>, <<5, "hearts">>>>}

EvalDeals ==
    {hs \in [Players -> EvalHands] :
        \A p, q \in Players : p # q => Range(hs[p]) \cap Range(hs[q]) = {}}

InitEval ==
    /\ chips = [p \in Players |-> StartingChips]
    /\ current_bet = [p \in Players |-> 0]
    /\ is_active = [p \in Players |-> TRUE]
    /\ community_cards \in EvalBoards
    /\ hand \in {hs \in EvalDeals :
                    \A p \in Players : Range(hs[p]) \cap Range(community_cards) = {}}
    /\ deck = Without(FullDeck, Range(community_cards)
                                 \cup UNION {Range(hand[p]) : p \in Players})
    /\ pot = 0
    /\ dealer_position = 1 % NumPlayers
    /\ pc = "idle"
    /\ turn = 0
    /\ streetBet = 0
    /\ street = IF Len(community_cards) = 5 THEN "River" ELSE "Flop"
    /\ current_stage = 4
    /\ timer = FALSE
    /\ aborted = FALSE
    /\ rounds = 1
    /\ calls = 0
    /\ chips_at_start = [p \in Players |-> StartingChips]
    /\ last = "check"
    /\ winner = 0
    /\ evals = 0
    /\ showdowns = 0
    /\ results = [p \in Players |-> NoResult]
    /\ request = NoRequest

EvalNext == Stage4

SpecEval == InitEval /\ [][EvalNext]_vars

\* ------------------------------------------------------ the decision text
\* A text is a sequence of one-character strings.
LowerChar(c) ==
    CASE c = "F" -> "f"
      [] c = "C" -> "c"
      [] c = "H" -> "h"
      [] c = "E" -> "e"
      [] c = "K" -> "k"
      [] OTHER -> c

\* str.lower()
Lower(t) == [i \in DOMAIN t |-> LowerChar(t[i])]

\* str.strip()
Strip(t) ==
    LET inked == {i \in DOMAIN t : t[i] # " "}
    IN  IF inked = {} THEN << >> ELSE SubSeq(t, SetMin(inked), SetMax(inked))

\* \w of the regular expression: letters, digits and the underscore
IsWordChar(c) == c \notin {" ", "."}

\* The alternatives of the pattern (fold|check|bet|raise)
KeywordText(k) ==
    CASE k = "fold" -> <<"f", "o", "l", "d">>
      [] k = "check" -> <<"c", "h", "e", "c", "k">>
      [] k = "bet" -> <<"b", "e", "t">>
      [] k = "raise" -> <<"r", "a", "i", "s", "e">>

\* keyword k is written in t from position i on
OccursAt(t, i, k) ==
    /\ i + Len(KeywordText(k)) - 1 <= Len(t)
    /\ SubSeq(t, i, i + Len(KeywordText(k)) - 1) = KeywordText(k)

\* \b before position i and \b after position j of t, the characters at i
\* and at j being word characters
WordBoundaries(t, i, j) ==
    /\ i = 1 \/ ~IsWordChar(t[i - 1])
    /\ j = Len(t) \/ ~IsWordChar(t[j + 1])

\* a search for the keywords without the \b of the pattern
sanitize_decision_unanchored(decision) ==
    LET t == Lower(decision)
        starts == {i \in DOMAIN t : \E k \in Decisions : OccursAt(t, i, k)}
    IN  IF starts = {} THEN "check"
        ELSE CHOOSE k \in Decisions : OccursAt(t, SetMin(starts), k)

\* re.search(r'\b(fold|check|bet|raise)\b', decision.lower()): the leftmost
\* match, or "check" when there is none
sanitize_decision(decision) ==
    LET t == Lower(decision)
        Match(i, k) == /\ OccursAt(t, i, k)
                       /\ WordBoundaries(t, i, i + Len(KeywordText(k)) - 1)
        starts == {i \in DOMAIN t : \E k \in Decisions : Match(i, k)}
    IN  IF starts = {} THEN "check"
        ELSE CHOOSE k \in Decisions : Match(SetMin(starts), k)

\* ------------------------------------------------- the decision request
\* SpecDecision: one call of get_ai_decision against a collaborator that
\* answers, fails, answers something else than the API's JSON, or is silent.
Pieces ==
    {<<"f", "o", "l", "d">>, <<"F", "o", "l", "d">>, <<"C", "H", "E", "C", "K">>,
     <<"b", "e", "t">>, <<"r", "a", "i", "s", "e">>, <<"i", "n", "g", " ">>,
     <<" ">>, <<".">>}

RECURSIVE TextsOf(_)
TextsOf(n) ==
    IF n = 0 THEN {<< >>}
    ELSE {t \o g : t \in TextsOf(n - 1), g \in Pieces}

\* The content of the message of a response.
Texts == UNION {TextsOf(n) : n \in 0..MaxPieces}

engineVars ==
    <<playerVars, tableVars, passVars, street, guiVars, rounds, calls, last,
      chips_at_start, winner, evals, showdowns, results>>

\* get_ai_decision is called: it first asks get_poker_compatible_model
RequestStart ==
    /\ request.pc = "idle"
    /\ request' = [request EXCEPT !.pc = "listing"]
    /\ UNCHANGED engineVars

\* get_available_models returns the names, or [] on a RequestException or a
\* status other than 200; get_poker_compatible_model returns a name
ListReturns ==
    /\ request.pc = "listing"
    /\ request' = [request EXCEPT !.pc = "posting"]
    /\ UNCHANGED engineVars

\* the tags response is JSON of another shape: model['name'] or .get raises
ListRaises ==
    /\ request.pc = "listing"
    /\ request' = [request EXCEPT !.pc = "raised"]
    /\ UNCHANGED engineVars

\* requests.get is called without a timeout and the server never answers
ListHangs ==
    /\ request.pc = "listing"
    /\ request' = [request EXCEPT !.pc = "hung"]
    /\ UNCHANGED engineVars

\* requests.post or raise_for_status raises a RequestException
PostFails ==
    /\ request.pc = "posting"
    /\ request.attempts < max_retries
    /\ request' = [request EXCEPT !.pc = "returned", !.attempts = @ + 1,
                                  !.result = "fold"]
    /\ UNCHANGED engineVars

\* requests.post is called without a timeout and the server never answers
PostHangs ==
    /\ request.pc = "posting"
    /\ request.attempts < max_retries
    /\ request' = [request EXCEPT !.pc = "hung", !.attempts = @ + 1]
    /\ UNCHANGED engineVars

\* the response is JSON whose "message" is no object or whose "content" is
\* null: .get or .strip raises AttributeError, which no handler catches
PostRaises ==
    /\ request.pc = "posting"
    /\ request.attempts < max_retries
    /\ request' = [request EXCEPT !.pc = "raised", !.attempts = @ + 1]
    /\ UNCHANGED engineVars

\* the response carries a content: one iteration of the retry loop
PostSucceeds ==
    /\ request.pc = "posting"
    /\ request.attempts < max_retries
    /\ \E t \in Texts :
          LET decision == Lower(Strip(t))
              valid_action == sanitize_decision(decision)
              attempt == request.attempts + 1
          IN  request' =
                IF valid_action \in Decisions
                  THEN [pc |-> "returned", attempts |-> attempt, received |-> TRUE,
                        text |-> t, result |-> valid_action]
                ELSE IF attempt < max_retries
                  THEN [request EXCEPT !.attempts = attempt]
                ELSE [pc |-> "returned", attempts |-> attempt, received |-> FALSE,
                      text |-> t, result |-> "fold"]
    /\ UNCHANGED engineVars

get_ai_decision ==
    \/ RequestStart
    \/ ListReturns
    \/ ListRaises
    \/ ListHangs
    \/ PostFails
    \/ PostHangs
    \/ PostRaises
    \/ PostSucceeds

SpecDecision == Init /\ [][get_ai_decision]_vars

\* ------------------------------------------------------------ properties
ActiveSet == {p \in Players : is_active[p]}

ActiveCount == Cardinality(ActiveSet)

RECURSIVE SumOver(_, _)
SumOver(f, S) ==
    IF S = {} THEN 0
    ELSE LET x == CHOOSE y \in S : TRUE IN f[x] + SumOver(f, S \ {x})

\* Chips the players have paid since the round's play_pre_flop began.
Committed == SumOver([p \in Players |-> chips_at_start[p] - chips[p]], Players)

\* Under the sequential driver: a round has begun and has not been reset away.
InRound == pc = "betting" \/ current_stage \in 1..5

\* A step in which betting_round asks the player at `turn` for a decision.
DecisionStep == pc = "betting" /\ is_active[turn] /\ (turn' # turn \/ pc' # pc)

\* A step in which a street operation, or the showdown, begins.
StreetStep ==
    /\ pc = "idle"
    /\ \/ pc' = "betting"
       \/ showdowns' # showdowns

NextStreet(s) ==
    CASE s = "None" -> "PreFlop"
      [] s = "PreFlop" -> "Flop"
      [] s = "Flop" -> "Turn"
      [] s = "Turn" -> "River"
      [] s = "River" -> "Showdown"
      [] s = "Showdown" -> "PreFlop"

Result(p) == evaluate_hand(hand[p], community_cards)

\* Result a beats result b: the higher category, or the same category and the
\* greater rank at the first place where the tie-break sequences differ.
Beats(a, b) ==
    \/ a[1] > b[1]
    \/ /\ a[1] = b[1]
       /\ \E i \in 1..Min(Len(a[2]), Len(b[2])) :
             /\ a[2][i] > b[2][i]
             /\ \A j \in 1..(i - 1) : a[2][j] = b[2][j]

\* determine_winner has just run over 5 community cards, every active player
\* holding 2 hole cards.
AfterShowdown ==
    /\ last = "showdown"
    /\ Len(community_cards) = 5
    /\ \A p \in ActiveSet : Len(hand[p]) = HandSize

\* The active players no active player beats.
TopPlayers == {p \in ActiveSet : \A q \in ActiveSet : ~Beats(Result(q), Result(p))}

\* C1 (as claimed): in every state within a round the pot equals the chips the
\* players have paid since the round began.
C1_ChipConservation == InRound => pot = Committed

\* C2 (as claimed): a fold or a check leaves the pot, the player's chips, the
\* player's current_bet and the running street bet unchanged.
C2_FoldCheckContributeNothing ==
    [][(DecisionStep /\ last' \in {"fold", "check"})
         => /\ pot' = pot
            /\ chips'[turn] = chips[turn]
            /\ current_bet'[turn] = current_bet[turn]
            /\ streetBet' = streetBet]_vars

\* C3 (as claimed): once at most one player is active no player is asked for a
\* decision, and the number of active players never drops from 1 to 0.
C3_NoDecisionForLastPlayer ==
    [][/\ ActiveCount <= 1 => ~DecisionStep
       /\ ActiveCount = 1 => Cardinality({p \in Players : is_active'[p]}) >= 1]_vars

\* C4 (as claimed): a showdown with exactly one active player declares that
\* player the winner and calls evaluate_hand zero times.
C4_ShowdownOfOneWithoutEvaluation ==
    (last = "showdown" /\ ActiveCount = 1) => (winner \in ActiveSet /\ evals = 0)

\* C4 (amended): a showdown over 5 community cards with exactly one active
\* player, who holds 2 hole cards, declares that player the winner and calls
\* evaluate_hand exactly once, for that player.
C4_ShowdownOfOneEvaluatesOnce ==
    (AfterShowdown /\ ActiveCount = 1) => (winner \in ActiveSet /\ evals = 1)

\* C4 witness: a showdown has just run with exactly one active player, after
\* the other players folded.
C4_Witness ==
    /\ AfterShowdown
    /\ ActiveCount = 1
    /\ winner \in ActiveSet
    /\ evals = 1

\* C5: after a showdown over 5 community cards with at least one active
\* player, the winner is an active player whose result no active player's
\* result beats.
C5_WinnerIsMaximum ==
    (AfterShowdown /\ ActiveCount >= 1)
        => /\ winner \in ActiveSet
           /\ \A q \in ActiveSet : ~Beats(Result(q), Result(winner))

\* C5 witness: the winner has the higher category although an active loser's
\* tie-break starts with a higher rank.
C5_Witness ==
    /\ AfterShowdown
    /\ winner \in ActiveSet
    /\ \E q \in ActiveSet :
          /\ Result(winner)[1] > Result(q)[1]
          /\ Result(q)[2][1] > Result(winner)[2][1]

\* C6: when, after a showdown over 5 community cards, the best result is held
\* by two or more active players with equal category and equal tie-break
\* sequences, the winner is the first of them in table order.
C6_ExactTieGoesToFirst ==
    (/\ AfterShowdown
     /\ Cardinality(TopPlayers) >= 2
     /\ \A p, q \in TopPlayers : Result(p) = Result(q))
        => winner = SetMin(TopPlayers)

\* C6 witness: a showdown in which two active players hold the same best result.
C6_Witness ==
    /\ AfterShowdown
    /\ Cardinality(TopPlayers) >= 2
    /\ \A p, q \in TopPlayers : Result(p) = Result(q)
    /\ winner = SetMin(TopPlayers)

\* C7 (as claimed): every street operation that runs is the successor of the
\* one that ran before it: PreFlop, Flop, Turn, River, Showdown, none repeated.
C7_StreetOrder == [][StreetStep => street' = NextStreet(street)]_vars

\* C8: the community cards number 0 after PreFlop, 3 after Flop, 4 after Turn
\* and 5 after River, in every round.
C8_CommunityCount ==
    /\ street = "PreFlop" => Len(community_cards) = 0
    /\ street = "Flop" => Len(community_cards) = 3
    /\ street = "Turn" => Len(community_cards) = 4
    /\ street = "River" => Len(community_cards) = 5

\* C8 witness: the River of the second round has run with every player folded.
C8_Witness ==
    /\ rounds = 2
    /\ street = "River"
    /\ pc = "idle"
    /\ ActiveCount = 0
    /\ Len(community_cards) = 5

\* C9 (as claimed): an operation invoked out of sequence, or a showdown invoked
\* with other than 5 community cards, leaves players, pot and community cards
\* unchanged.
OutOfOrderCall ==
    /\ calls' = calls + 1
    /\ \/ street' # "PreFlop" /\ street' # NextStreet(street)
       \/ street' = "Showdown" /\ Len(community_cards) # 5

C9_OutOfOrderRejected ==
    [][OutOfOrderCall => UNCHANGED <<playerVars, pot, community_cards>>]_vars

\* C10 (as claimed): when the PreFlop betting pass begins every player has 2
\* hole cards, current_bet 0 and is active.
C10_PreFlopResetsPlayers ==
    (street = "PreFlop" /\ last = "start")
        => \A p \in Players :
              Len(hand[p]) = 2 /\ current_bet[p] = 0 /\ is_active[p]

\* C11: a step that begins a round's PreFlop moves dealer_position on by one
\* modulo the number of players, and every other step leaves it unchanged.
C11_DealerRotation ==
    [][IF rounds' # rounds
         THEN dealer_position' = (dealer_position + 1) % NumPlayers
         ELSE dealer_position' = dealer_position]_vars

\* C11 witness: the second round's PreFlop has begun and the dealer position
\* has gone round the table as many times as rounds were played.
C11_Witness ==
    /\ rounds = 2
    /\ street = "PreFlop"
    /\ dealer_position = 2 % NumPlayers
    /\ \E p \in Players : ~is_active[p]

\* The cards the players and the board hold, as a set and as a count.
DealtSet == UNION {Range(hand[p]) : p \in Players} \cup Range(community_cards)

DealtCount == SumOver([p \in Players |-> Len(hand[p])], Players) + Len(community_cards)

\* C12: the full deck is 52 distinct cards; the cards dealt in a round are
\* pairwise distinct and none of them is still in the deck; the deck holds no
\* card twice; dealt and remaining cards together are the 52.
C12_NoDuplicateDeals ==
    /\ Len(FullDeck) = 52
    /\ Cardinality(Range(FullDeck)) = 52
    /\ Cardinality(DealtSet) = DealtCount
    /\ Cardinality(Range(deck)) = Len(deck)
    /\ DealtSet \cap Range(deck) = {}
    /\ DealtSet \cup Range(deck) = Range(FullDeck)
    /\ Len(deck) + DealtCount = 52

\* C12 witness: the River of the second round has been dealt: every player
\* holds 2 cards, the board 5, and the deck the rest.
C12_Witness ==
    /\ rounds = 2
    /\ street = "River"
    /\ \A p \in Players : Len(hand[p]) = HandSize
    /\ Len(community_cards) = 5
    /\ Len(deck) = 52 - HandSize * NumPlayers - 5

\* The players the last determine_winner logged a hand value for.
Evaluated == {p \in Players : last = "showdown" /\ results[p] # NoResult}

\* The cards of a list in the order of the unshuffled deck.
InDeckOrder(cards) ==
    LET idx == SortedSet({k \in DOMAIN FullDeck : FullDeck[k] \in Range(cards)})
    IN  [i \in DOMAIN idx |-> FullDeck[idx[i]]]

\* Some other orders of the same cards over the two argument lists: each list
\* reversed, the two lists exchanged, and all cards in deck order in one list.
Reorderings(h, c) ==
    {<<Reverse(h), c>>, <<h, Reverse(c)>>, <<c, h>>, <<InDeckOrder(h \o c), << >>>>,
     <<<< >>, Reverse(InDeckOrder(h \o c))>>}

\* C13 (as claimed): the result logged for a player is the result of
\* evaluate_hand on every other order of the same cards.
C13_PermutationInvariance ==
    \A p \in Evaluated :
        \A o \in Reorderings(hand[p], community_cards) :
            evaluate_hand(o[1], o[2]) = results[p]

\* The cards a player plays, and their ranks.
CardsOf(p) == hand[p] \o community_cards

AllRanks(p) == RanksOf(CardsOf(p))

\* The top cards of the runs of 5 consecutive ranks in a set of ranks, the ace
\* counting low in A-2-3-4-5, whose top card is 5.
StraightTops(R) ==
    {t \in 5..Ace : IF t = 5 THEN Wheel \subseteq R ELSE (t - 4)..t \subseteq R}

\* C14 (as claimed): a hand evaluated as a Straight whose best straight is
\* A-2-3-4-5 has a tie-break that begins with 5, and it neither wins against
\* nor ties with a Straight whose best straight is 2-3-4-5-6.
C14_WheelBelowSixHigh ==
    \A p \in Evaluated :
        (results[p][1] = 5 /\ SetMax(StraightTops(Range(AllRanks(p)))) = 5)
            => /\ Len(results[p][2]) >= 1
               /\ results[p][2][1] = 5
               /\ \A q \in Evaluated :
                     (results[q][1] = 5 /\ SetMax(StraightTops(Range(AllRanks(q)))) = 6)
                         => /\ winner # p
                            /\ ListGreater(results[q][2], results[p][2])

\* C15 (as claimed): the tie-break of a hand evaluated as a Straight begins
\* with the top card of the highest run of 5 consecutive ranks it holds.
C15_StraightTopCard ==
    \A p \in Evaluated :
        results[p][1] = 5
            => /\ Len(results[p][2]) >= 1
               /\ results[p][2][1] = SetMax(StraightTops(Range(AllRanks(p))))

\* The suits a player holds 5 or more cards of.
FlushSuits(p) ==
    {su \in Range(SuitsOf(CardsOf(p))) : Count(SuitsOf(CardsOf(p)), su) >= 5}

\* The top cards of the straights a player holds within one suit.
SuitedStraightTops(p) ==
    UNION {StraightTops(Range(SuitedRanks(CardsOf(p), su))) : su \in FlushSuits(p)}

\* C16 (as claimed): the tie-break of a hand evaluated as a StraightFlush
\* begins with the top card of the straight within the flush suit.
C16_StraightFlushTopCard ==
    \A p \in Evaluated :
        results[p][1] = 9
            => /\ Len(results[p][2]) >= 1
               /\ results[p][2][1] = SetMax(SuitedStraightTops(p))

\* The ranks a player holds exactly n cards of.
RanksHeld(p, n) == {r \in Range(AllRanks(p)) : Count(AllRanks(p), r) = n}

\* C17 (as claimed): a hand with two ranks of count 3 is a FullHouse whose
\* tie-break is the higher triple, then the lower.
C17_TwoTriplesFullHouse ==
    \A p \in Evaluated :
        Cardinality(RanksHeld(p, 3)) = 2
            => results[p] = <<7, <<SetMax(RanksHeld(p, 3)), SetMin(RanksHeld(p, 3))>>>>

\* C18 (as claimed): a hand with one rank of count 3 and two ranks of count 2
\* is a FullHouse whose tie-break is the triple, then the higher pair.
C18_FullHouseHighestPair ==
    \A p \in Evaluated :
        (Cardinality(RanksHeld(p, 3)) = 1 /\ Cardinality(RanksHeld(p, 2)) = 2)
            => results[p] = <<7, <<SetMax(RanksHeld(p, 3)), SetMax(RanksHeld(p, 2))>>>>

\* The words of a text: its maximal runs of word characters, as <<first, last>>.
WordSpans(t) ==
    {<<i, j>> \in (DOMAIN t) \X (DOMAIN t) :
        /\ i <= j
        /\ \A k \in i..j : IsWordChar(t[k])
        /\ WordBoundaries(t, i, j)}

\* The words of a text that are keywords, whatever their case.
KeywordWords(t) ==
    {w \in WordSpans(t) : \E k \in Decisions : Lower(SubSeq(t, w[1], w[2])) = KeywordText(k)}

\* The first keyword among the words of a text, "check" when there is none.
FirstKeywordWord(t) ==
    IF KeywordWords(t) = {} THEN "check"
    ELSE LET w == CHOOSE v \in KeywordWords(t) : \A u \in KeywordWords(t) : v[1] <= u[1]
         IN  CHOOSE k \in Decisions : Lower(SubSeq(t, w[1], w[2])) = KeywordText(k)

\* The first keyword written anywhere in a text, "check" when there is none.
FirstKeywordWritten(t) ==
    LET starts == {i \in DOMAIN t : \E k \in Decisions : OccursAt(Lower(t), i, k)}
    IN  IF starts = {} THEN "check"
        ELSE CHOOSE k \in Decisions : OccursAt(Lower(t), SetMin(starts), k)

\* C19 (as claimed): the decision returned for a received text is the first
\* keyword written in it, whatever its case, and check when none is written.
C19_FirstKeywordWritten ==
    (request.pc = "returned" /\ request.received)
        => request.result = FirstKeywordWritten(request.text)

\* C19 (amended): the decision returned for a received text is the first of
\* its words that is a keyword, whatever its case, and check when no word is;
\* it is one of the four actions.
C19_FirstKeywordWord ==
    (request.pc = "returned" /\ request.received)
        => /\ request.result = FirstKeywordWord(request.text)
           /\ request.result \in Decisions

\* C19 witness: a text in which a keyword is written inside a longer word
\* before another keyword stands as a word, and the second is returned.
C19_Witness ==
    /\ request.pc = "returned"
    /\ request.received
    /\ FirstKeywordWritten(request.text) = "bet"
    /\ request.result = "fold"

\* C20 (as claimed): a decision request makes at most 2 attempts, is never
\* left waiting without end nor by an exception, and returns one of the four
\* actions, fold when no text was received.
C20_RequestResolves ==
    /\ request.attempts <= 2
    /\ request.pc \notin {"hung", "raised"}
    /\ request.pc = "returned" => request.result \in Decisions
    /\ (request.pc = "returned" /\ ~request.received) => request.result = "fold"

\* C21: every betting pass starts at the first player of the table whatever
\* the dealer position; each step of the pass asks the player at `turn` for one
\* decision exactly when that player is active, then moves to the next player
\* in table order, and the pass ends after the last player: no player has a
\* second turn in the pass.
C21_OneDecisionPerPass ==
    [][/\ (pc = "idle" /\ pc' = "betting") => turn' = 1
       /\ pc = "betting" =>
            /\ last' \in Decisions <=> is_active[turn]
            /\ last' \notin Decisions => last' = "skip"
            /\ \/ turn < NumPlayers /\ pc' = "betting" /\ turn' = turn + 1
               \/ turn = NumPlayers /\ pc' = "idle"]_vars

\* C21 witness: the PreFlop pass has ended on a raise of the last player above
\* the bet of the first player, who is still active and was not asked again;
\* the dealer position is not the first seat.
C21_Witness ==
    /\ pc = "idle"
    /\ street = "PreFlop"
    /\ last = "raise"
    /\ is_active[1]
    /\ current_bet[1] > 0
    /\ current_bet[NumPlayers] > current_bet[1]
    /\ dealer_position # 0

\* C22: a determine_winner that runs with no active player returns no player,
\* calls evaluate_hand zero times, logs no hand value and leaves every
\* player's chips unchanged.
C22_NoActiveNoWinner ==
    [][(showdowns' # showdowns /\ ActiveCount = 0)
         => /\ winner' = 0
            /\ evals' = 0
            /\ results' = [p \in Players |-> NoResult]
            /\ chips' = chips]_vars

\* C22 witness: determine_winner has run over a full board with every player
\* inactive, each holding 2 hole cards.
C22_Witness ==
    /\ last = "showdown"
    /\ ActiveCount = 0
    /\ Len(community_cards) = 5
    /\ \A p \in Players : Len(hand[p]) = HandSize
    /\ winner = 0
    /\ evals = 0

\* A step in which the player at `turn` bets or raises.
BetOrRaiseStep == DecisionStep /\ last' \in {"bet", "raise"}

\* C23: in every reachable state every player's chips and current_bet and the
\* pot are at least 0; the amount a bet or a raise commits is between 0 and
\* the chips the player had before it; a player with 0 chips who bets or
\* raises commits 0 and stays active.
C23_ChipsNeverNegative ==
    /\ [](/\ \A p \in Players : chips[p] >= 0 /\ current_bet[p] >= 0
          /\ pot >= 0)
    /\ [][BetOrRaiseStep
            => /\ current_bet'[turn] = chips[turn] - chips'[turn]
               /\ current_bet'[turn] \in 0..chips[turn]
               /\ chips[turn] = 0 => (current_bet'[turn] = 0 /\ is_active'[turn])]_vars

\* C23 witness: the last player, who began the round with chips, has just bet
\* or raised with 0 chips left: the amount is 0 and the player is active.
C23_Witness ==
    /\ pc = "idle"
    /\ last \in {"bet", "raise"}
    /\ chips_at_start[NumPlayers] > 0
    /\ chips[NumPlayers] = 0
    /\ current_bet[NumPlayers] = 0
    /\ is_active[NumPlayers]

\* The claimed amounts of a bet by a player with c chips facing street bet s.
ClaimedBets(c, s) ==
    LET lo == Max(s, 50)
        hi == Min(c, s + 200)
    IN  IF lo <= hi THEN lo..hi ELSE {c}

\* C24: whenever a player is to act, every amount calculate_bet_amount can
\* return lies in [max(streetBet, 50), min(chips, streetBet + 200)] when that
\* interval is not empty and is the whole of the player's chips otherwise; and
\* the amount a bet commits is one of these.
C24_BetSizing ==
    /\ [](pc = "betting"
            => /\ calculate_bet_amount(chips[turn], streetBet) # {}
               /\ calculate_bet_amount(chips[turn], streetBet)
                     \subseteq ClaimedBets(chips[turn], streetBet))
    /\ [][(DecisionStep /\ last' = "bet")
            => /\ chips[turn] - chips'[turn] \in ClaimedBets(chips[turn], streetBet)
               /\ current_bet'[turn] = chips[turn] - chips'[turn]]_vars

\* C24 witness: the first player bet 200 over a street bet of 0 and keeps
\* chips (the interval capped by streetBet + 200), then the last player, whose
\* chips were below the street bet, bet them all.
C24_Witness ==
    /\ pc = "idle"
    /\ last = "bet"
    /\ current_bet[1] = 200
    /\ chips[1] > 0
    /\ chips_at_start[NumPlayers] \in 1..49
    /\ current_bet[NumPlayers] = chips_at_start[NumPlayers]
    /\ chips[NumPlayers] = 0

\* The claimed amounts of a raise by a player with c chips facing street bet s.
ClaimedRaises(c, s) ==
    IF c <= 2 * s THEN {c} ELSE (2 * s)..Min(c, 3 * s + 100)

\* C25: whenever a player is to act, every amount calculate_raise_amount can
\* return is the whole of the player's chips when chips <= 2 * streetBet and
\* otherwise lies in [2 * streetBet, min(chips, 3 * streetBet + 100)]; the
\* amount a raise commits is one of these, and when it is not the whole of the
\* chips it is not below the street bet.
C25_RaiseSizing ==
    /\ [](pc = "betting"
            => /\ calculate_raise_amount(chips[turn], streetBet) # {}
               /\ calculate_raise_amount(chips[turn], streetBet)
                     \subseteq ClaimedRaises(chips[turn], streetBet))
    /\ [][(DecisionStep /\ last' = "raise")
            => /\ chips[turn] - chips'[turn] \in ClaimedRaises(chips[turn], streetBet)
               /\ current_bet'[turn] = chips[turn] - chips'[turn]
               /\ chips'[turn] > 0 => current_bet'[turn] >= streetBet]_vars

\* C25 witness: the first player bet 50 and the last player, with 700 chips,
\* raised to 3 * 50 + 100 = 250 and keeps 450.
C25_Witness ==
    /\ pc = "idle"
    /\ last = "raise"
    /\ current_bet[1] = 50
    /\ chips_at_start[NumPlayers] = 700
    /\ current_bet[NumPlayers] = 250
    /\ chips[NumPlayers] = 450

\* C26: while a betting pass is running no street operation and no showdown
\* starts (the cards, the street, the round and the showdown count stay as they
\* are); each step of the pass changes the chips, current_bet and is_active of
\* the player at `turn` only, adds that player's current_bet to the pot when
\* the player decided and nothing otherwise, raises the street bet to that
\* player's current_bet at most, and passes the turn to the next player.
C26_NoAdvanceOverPendingDecision ==
    [][pc = "betting"
         => /\ UNCHANGED <<street, community_cards, deck, hand, dealer_position,
                           rounds, showdowns, winner>>
            /\ \A p \in Players \ {turn} :
                  /\ chips'[p] = chips[p]
                  /\ current_bet'[p] = current_bet[p]
                  /\ is_active'[p] = is_active[p]
            /\ pot' = IF is_active[turn] THEN pot + current_bet'[turn] ELSE pot
            /\ streetBet' = Max(streetBet, IF is_active[turn] THEN current_bet'[turn] ELSE 0)
            /\ \/ pc' = "betting" /\ turn' = turn + 1
               \/ pc' = "idle" /\ turn = NumPlayers]_vars

\* C26 witness: under the running stage timer the Flop pass is waiting for the
\* last player's decision after the first player bet, and the stage counter
\* still names the Flop.
C26_Witness ==
    /\ timer
    /\ ~aborted
    /\ pc = "betting"
    /\ street = "Flop"
    /\ current_stage = 1
    /\ turn = NumPlayers
    /\ is_active[turn]
    /\ last = "bet"

\* C27: in every step, a player who is inactive before it is active after it
\* only when the step is the reset between rounds; the player's chips do not
\* change, and the player's current_bet changes only in that reset; and when
\* the betting pass reaches the player no decision is asked and the pot and
\* the street bet stay as they are.
C27_FoldedStaysFolded ==
    [][\A p \in Players :
          ~is_active[p]
            => /\ is_active'[p] => last' = "reset"
               /\ chips'[p] = chips[p]
               /\ current_bet'[p] # current_bet[p] => last' = "reset"
               /\ (pc = "betting" /\ turn = p)
                    => /\ last' = "skip"
                       /\ pot' = pot
                       /\ streetBet' = streetBet]_vars

\* C27 witness: the River pass has ended by passing over the last player, who
\* folded on an earlier street after betting and whose current_bet still
\* holds that bet.
C27_Witness ==
    /\ street = "River"
    /\ pc = "idle"
    /\ last = "skip"
    /\ ~is_active[NumPlayers]
    /\ current_bet[NumPlayers] > 0
    /\ chips[NumPlayers] = chips_at_start[NumPlayers] - current_bet[NumPlayers]
    /\ pot > 0

\* C28: no step increases any player's chips, nor their sum; a showdown and
\* the reset between rounds leave every player's chips unchanged; the reset,
\* and the start of a round's PreFlop, leave the pot at 0 and the chips as
\* they were.
C28_ChipsNeverCredited ==
    [][/\ \A p \in Players : chips'[p] <= chips[p]
       /\ SumOver(chips', Players) <= SumOver(chips, Players)
       /\ (showdowns' # showdowns \/ last' = "reset" \/ rounds' # rounds) => chips' = chips
       /\ (last' = "reset" \/ rounds' # rounds) => pot' = 0]_vars

\* C28 witness: the reset has run after a showdown won by a player who had
\* paid into a pot of more than that player's own bets; the pot is 0 and the
\* winner's chips are below those at the start of the round.
C28_Witness ==
    /\ last = "reset"
    /\ winner \in Players
    /\ pot = 0
    /\ chips[winner] < chips_at_start[winner]
    /\ \E q \in Players \ {winner} : chips[q] < chips_at_start[q]

\* The name of the category with ordinal c.
CategoryName(c) ==
    CASE c = 9 -> "Straight Flush"
      [] c = 8 -> "Four of a Kind"
      [] c = 7 -> "Full House"
      [] c = 6 -> "Flush"
      [] c = 5 -> "Straight"
      [] c = 4 -> "Three of a Kind"
      [] c = 3 -> "Two Pair"
      [] c = 2 -> "One Pair"
      [] c = 1 -> "High Card"

\* C29 (as claimed): describe_hand_value names each of the nine ordinals by
\* its own category, Straight Flush and Four of a Kind apart; after a showdown
\* the description logged for each evaluated player, and the one returned
\* with the winner, name the category evaluate_hand returned.
C29_LabelMatchesCategory ==
    AfterShowdown
      => /\ \A p \in Players :
               results[p] # NoResult => hand_description(p) = CategoryName(results[p][1])
         /\ winner \in Players => winning_hand = CategoryName(Result(winner)[1])
         /\ \A c \in 1..9 : describe_hand_value(c) = CategoryName(c)
         /\ describe_hand_value(9) # describe_hand_value(8)

\* C30 (as claimed): once the timer driver's Showdown step has run,
\* determine_winner has run exactly once in the round, the stage counter is
\* past the Showdown and the driver has not stopped.
C30_RoundTurnover ==
    last = "showdown" => (showdowns = 1 /\ current_stage > 4 /\ ~aborted)

=============================================================================
